---- MODULE Spec2Model ----
(***************************************************************************)
(* Model of gamesir_ds4_driver_updated.py: the DS4 class (get_state,       *)
(* parse_state, simulate_input), its connect() and the polling loop of     *)
(* main().  A frame is the bytearray returned by read_gatt_char, modelled  *)
(* as a sequence of bytes; Python index i is TLA+ index i + 1.             *)
(*                                                                         *)
(* get_state has one suspension point (the await of _read, line 68); what  *)
(* follows it runs without interruption.  Read is the completion of that   *)
(* await, ConnectGetState and PollGetState are the rest of get_state       *)
(* together with what its caller does with the result.                     *)
(***************************************************************************)
EXTENDS Integers, Sequences, FiniteSets, TLC

VARIABLES
    pc,                     \* per controller: position of its connect()/main loop
    state_vec,              \* self._state_vec
    class_previous_state,   \* DS4._previous_state (class attribute)
    self_previous_state,    \* the instance's own _previous_state: <<>> (no such
                            \* attribute in the instance) or <<value>>
    fields,                 \* self.L1 .. self.RY
    parse_data,             \* `data` of the latest parse_state call: <<>> or <<frame>>
    ret,                    \* outcome of the latest get_state call
    gamepad,                \* directives of the latest report handed to self.gamepad
    updates,                \* number of gamepad.update() calls
    accepted,               \* history: latest non-garbage frame read, <<>> or <<frame>>
    skipped                 \* history: "garbage" when a garbage frame was read
                            \* since `accepted`, "after" when `accepted` came
                            \* right after one, else "none"

vars == <<pc, state_vec, class_previous_state, self_previous_state, fields,
          parse_data, ret, gamepad, updates, accepted, skipped>>

----------------------------------------------------------------------------
(* Program constants *)

GARBAGE == 201          \* 0xc9
STICK_MIN == -512
STICK_MAX == 512
STICK_DIV == 512
FRAME_LEN == 20
MIN_LEN == 11            \* parse_state reads data[10]

DS4_BUTTON_OPTIONS == 8192
DS4_BUTTON_SHARE == 4096
DS4_BUTTON_SHOULDER_RIGHT == 512
DS4_BUTTON_SHOULDER_LEFT == 256
DS4_BUTTON_TRIANGLE == 128
DS4_BUTTON_CIRCLE == 64
DS4_BUTTON_CROSS == 32
DS4_BUTTON_SQUARE == 16

(* Bounds of the model *)

MaxUpdates == 3         \* a controller stops polling after this many reports

----------------------------------------------------------------------------
(* Python integer operators on naturals *)

RECURSIVE BitAnd(_, _)
BitAnd(a, b) ==
    IF a = 0 \/ b = 0 THEN 0
    ELSE (a % 2) * (b % 2) + 2 * BitAnd(a \div 2, b \div 2)

RECURSIVE BitOr(_, _)
BitOr(a, b) ==
    IF a = 0 THEN b
    ELSE IF b = 0 THEN a
    ELSE (IF a % 2 = 1 \/ b % 2 = 1 THEN 1 ELSE 0) + 2 * BitOr(a \div 2, b \div 2)

Shl(a, n) == a * (2 ^ n)

Shr(a, n) == a \div (2 ^ n)

IntBool(x) == IF x # 0 THEN 1 ELSE 0

(* data[i], for an index the frame has *)
At(data, i) == data[i + 1]

----------------------------------------------------------------------------
(* Python values of _previous_state: the str "" of the class body, or a      *)
(* bytearray.  A str never equals a bytearray.                               *)

StrEmpty == [type |-> "str", bytes |-> <<>>]

ByteArray(f) == [type |-> "bytearray", bytes |-> f]

(* self._previous_state: the instance's attribute when it has one, else the  *)
(* class attribute *)
LookupPreviousState(c) ==
    IF self_previous_state[c] # <<>> THEN self_previous_state[c][1]
    ELSE class_previous_state

----------------------------------------------------------------------------
(* parse_state *)

FieldOrder ==
    <<"L1", "L2", "R1", "R2", "Cross", "Circle", "Square", "Triangle",
      "Share", "Options", "LX", "LY", "RX", "RY">>

(* The highest index of data the assignment of each field reads *)
FieldIndex ==
    [L1 |-> 9, L2 |-> 7, R1 |-> 9, R2 |-> 8, Cross |-> 9, Circle |-> 9,
     Square |-> 9, Triangle |-> 9, Share |-> 10, Options |-> 10,
     LX |-> 3, LY |-> 4, RX |-> 5, RY |-> 6]

(* Mutant: Square read with the mask 0x04 *)
FieldValueSquare04(name, data) ==
    CASE name = "L1" -> IntBool(BitAnd(At(data, 9), 64))
      [] name = "L2" -> At(data, 7)
      [] name = "R1" -> IntBool(BitAnd(At(data, 9), 128))
      [] name = "R2" -> At(data, 8)
      [] name = "Cross" -> IntBool(BitAnd(At(data, 9), 1))
      [] name = "Circle" -> IntBool(BitAnd(At(data, 9), 2))
      [] name = "Square" -> IntBool(BitAnd(At(data, 9), 4))
      [] name = "Triangle" -> IntBool(BitAnd(At(data, 9), 16))
      [] name = "Share" -> IntBool(BitAnd(At(data, 10), 4))
      [] name = "Options" -> IntBool(BitAnd(At(data, 10), 8))
      [] name = "LX" -> BitOr(Shl(At(data, 2), 2), Shr(At(data, 3), 6))
      [] name = "LY" -> Shl(BitAnd(At(data, 3), 63), 4) + Shr(At(data, 4), 4)
      [] name = "RX" -> BitOr(Shl(BitAnd(At(data, 4), 15), 6), Shr(At(data, 5), 2))
      [] name = "RY" -> Shl(BitAnd(At(data, 5), 3), 8) + At(data, 6)

(* The right-hand side of each assignment of parse_state *)
FieldValue(name, data) ==
    CASE name = "L1" -> IntBool(BitAnd(At(data, 9), 64))
      [] name = "L2" -> At(data, 7)
      [] name = "R1" -> IntBool(BitAnd(At(data, 9), 128))
      [] name = "R2" -> At(data, 8)
      [] name = "Cross" -> IntBool(BitAnd(At(data, 9), 1))
      [] name = "Circle" -> IntBool(BitAnd(At(data, 9), 2))
      [] name = "Square" -> IntBool(BitAnd(At(data, 9), 8))
      [] name = "Triangle" -> IntBool(BitAnd(At(data, 9), 16))
      [] name = "Share" -> IntBool(BitAnd(At(data, 10), 4))
      [] name = "Options" -> IntBool(BitAnd(At(data, 10), 8))
      [] name = "LX" -> BitOr(Shl(At(data, 2), 2), Shr(At(data, 3), 6))
      [] name = "LY" -> Shl(BitAnd(At(data, 3), 63), 4) + Shr(At(data, 4), 4)
      [] name = "RX" -> BitOr(Shl(BitAnd(At(data, 4), 15), 6), Shr(At(data, 5), 2))
      [] name = "RY" -> Shl(BitAnd(At(data, 5), 3), 8) + At(data, 6)

(* The number of assignments of parse_state that complete on data: the       *)
(* first one that indexes past the end of data raises IndexError and the     *)
(* ones after it do not run *)
Completed(data) ==
    LET ok(k) == \A j \in 1..k : FieldIndex[FieldOrder[j]] < Len(data)
    IN  CHOOSE k \in 0..Len(FieldOrder) :
            ok(k) /\ (k < Len(FieldOrder) => ~ok(k + 1))

Position(name) == CHOOSE j \in 1..Len(FieldOrder) : FieldOrder[j] = name

(* parse_state on an instance whose fields are old: the fields it leaves     *)
(* and whether it raised *)
parse_state(old, data) ==
    LET k == Completed(data)
    IN  [fields |-> [name \in DOMAIN old |->
                        IF Position(name) <= k THEN FieldValue(name, data)
                        ELSE old[name]],
         raised |-> k < Len(FieldOrder)]

(* The fields __init__ sets *)
InitFields ==
    [L1 |-> 0, L2 |-> 0, R1 |-> 0, R2 |-> 0, Triangle |-> 0, Circle |-> 0,
     Cross |-> 0, Square |-> 0, Share |-> 0, Options |-> 0,
     LX |-> 0, LY |-> 0, RX |-> 0, RY |-> 0]

----------------------------------------------------------------------------
(* simulate_input: the calls on self.gamepad, in order.  A stick directive   *)
(* carries the float x / den, y / den as its numerators and denominator:     *)
(* den is a power of two, so the division is exact.                          *)

Press(b) == [op |-> "press_button", button |-> b, x |-> 0, y |-> 0, den |-> 1]

Stick(op, x, y) == [op |-> op, button |-> 0, x |-> x, y |-> y, den |-> STICK_DIV]

Update == [op |-> "update", button |-> 0, x |-> 0, y |-> 0, den |-> 1]

PressIf(flag, b) == IF flag # 0 THEN <<Press(b)>> ELSE <<>>

Directives(fs) ==
    PressIf(fs.Cross, DS4_BUTTON_CROSS)
    \o PressIf(fs.Circle, DS4_BUTTON_CIRCLE)
    \o PressIf(fs.Square, DS4_BUTTON_SQUARE)
    \o PressIf(fs.Triangle, DS4_BUTTON_TRIANGLE)
    \o PressIf(fs.Share, DS4_BUTTON_SHARE)
    \o PressIf(fs.Options, DS4_BUTTON_OPTIONS)
    \o <<Stick("left_joystick_float", fs.LX, fs.LY)>>
    \o <<Stick("right_joystick_float", fs.RX, fs.RY)>>
    \o <<Update>>

----------------------------------------------------------------------------
(* get_state after the read *)

(* Mutant: the check against the wrong byte value *)
IsGarbageWrongValue(data) == At(data, 0) = 200

IsGarbage(data) == At(data, 0) = GARBAGE

(* Mutant: `is not` in place of `!=`; every read is a new bytearray *)
ChangedIdentity(previous, data) == TRUE

Changed(previous, data) == previous # ByteArray(data)

(* Mutant: DS4._previous_state = value, the assignment made on the class *)
StorePreviousStateOnClass(c, value) ==
    [class |-> value, self |-> self_previous_state]

(* self._previous_state = value: an assignment through self sets the         *)
(* instance's attribute and leaves the class attribute alone *)
StorePreviousState(c, value) ==
    [class |-> class_previous_state,
     self |-> [self_previous_state EXCEPT ![c] = <<value>>]]

get_state(c) ==
    LET data == state_vec[c]
    IN  IF Len(data) = 0
        THEN /\ ret' = [ret EXCEPT ![c] = "IndexError"]
             /\ UNCHANGED <<class_previous_state, self_previous_state, fields,
                            parse_data>>
        ELSE IF IsGarbage(data)
        THEN /\ ret' = [ret EXCEPT ![c] = "False"]
             /\ UNCHANGED <<class_previous_state, self_previous_state, fields,
                            parse_data>>
        ELSE IF Changed(LookupPreviousState(c), data)
        THEN LET st == StorePreviousState(c, ByteArray(data))
                 p == parse_state(fields[c], data)
             IN  /\ class_previous_state' = st.class
                 /\ self_previous_state' = st.self
                 /\ parse_data' = [parse_data EXCEPT ![c] = <<data>>]
                 /\ fields' = [fields EXCEPT ![c] = p.fields]
                 /\ ret' = [ret EXCEPT ![c] =
                               IF p.raised THEN "IndexError" ELSE "True"]
        ELSE /\ ret' = [ret EXCEPT ![c] = "False"]
             /\ UNCHANGED <<class_previous_state, self_previous_state, fields,
                            parse_data>>

(* The history variables, recorded from the frame itself *)
History(c) ==
    LET data == state_vec[c]
    IN  IF Len(data) > 0 /\ data[1] # GARBAGE
        THEN /\ accepted' = [accepted EXCEPT ![c] = <<data>>]
             /\ skipped' = [skipped EXCEPT ![c] =
                               IF skipped[c] = "garbage" THEN "after" ELSE "none"]
        ELSE IF Len(data) > 0
        THEN /\ skipped' = [skipped EXCEPT ![c] = "garbage"]
             /\ UNCHANGED accepted
        ELSE UNCHANGED <<accepted, skipped>>

(* An IndexError is caught nowhere: it ends main *)
After(c) == IF ret'[c] = "IndexError" THEN "crashed" ELSE "poll"

----------------------------------------------------------------------------
(* Actions *)

(* The await of _read completes with frame f, in connect or in the loop *)
Read(c, f) ==
    /\ pc[c] \in {"connect", "poll"}
    /\ updates[c] < MaxUpdates
    /\ state_vec' = [state_vec EXCEPT ![c] = f]
    /\ pc' = [pc EXCEPT ![c] = IF pc[c] = "connect" THEN "connect_rx" ELSE "poll_rx"]
    /\ UNCHANGED <<class_previous_state, self_previous_state, fields, parse_data,
                   ret, gamepad, updates, accepted, skipped>>

(* connect: the rest of get_state, whose result connect drops *)
ConnectGetState(c) ==
    /\ pc[c] = "connect_rx"
    /\ get_state(c)
    /\ History(c)
    /\ pc' = [pc EXCEPT ![c] = After(c)]
    /\ UNCHANGED <<state_vec, gamepad, updates>>

(* One turn of main's loop: the rest of get_state and, when it returned      *)
(* True, simulate_input *)
PollGetState(c) ==
    /\ pc[c] = "poll_rx"
    /\ get_state(c)
    /\ History(c)
    /\ IF ret'[c] = "True"
       THEN /\ gamepad' = [gamepad EXCEPT ![c] = Directives(fields'[c])]
            /\ updates' = [updates EXCEPT ![c] = updates[c] + 1]
       ELSE UNCHANGED <<gamepad, updates>>
    /\ pc' = [pc EXCEPT ![c] = After(c)]
    /\ UNCHANGED state_vec

----------------------------------------------------------------------------
(* Frames read from the controller *)

Zero == [i \in 1..FRAME_LEN |-> 0]

With(data, i, v) == [data EXCEPT ![i + 1] = v]

Idle == With(Zero, 0, 200)

CrossFrame == With(Idle, 9, 1)

(* <<byte index, mask>> of each button parse_state decodes *)
ButtonBits ==
    {<<9, 1>>, <<9, 2>>, <<9, 8>>, <<9, 16>>, <<9, 64>>, <<9, 128>>,
     <<10, 4>>, <<10, 8>>}

OneHotFrames ==
    {With(Zero, b[1], b[2]) : b \in ButtonBits}
    \cup {SubSeq(With(Zero, b[1], b[2]), 1, MIN_LEN) : b \in ButtonBits}

(* Frames that differ from Zero or from CrossFrame in no decoded bit *)
UndecodedFrames ==
    {Zero, Idle, With(Zero, 1, 1), With(Zero, 9, 4), With(Zero, 9, 32),
     With(Zero, 10, 1), With(Zero, 19, 1), CrossFrame, With(CrossFrame, 19, 7)}

TriggerFrames == {With(Zero, 7, 200), With(Zero, 8, 17), With(Zero, 7, 255)}

StickFrames ==
    {With(Zero, 2, 255), With(Zero, 2, 128), With(Zero, 3, 255),
     With(Zero, 4, 255), With(Zero, 5, 255), With(Zero, 6, 255)}

GarbageFrames == {With(Zero, 0, GARBAGE), With(CrossFrame, 0, GARBAGE), <<GARBAGE>>}

ShortFrames == {<<>>, <<200>>, SubSeq(Zero, 1, 9), SubSeq(CrossFrame, 1, 10)}

MainFrames ==
    OneHotFrames \cup UndecodedFrames \cup TriggerFrames \cup StickFrames
    \cup GarbageFrames \cup ShortFrames

TwoFrames == {Idle, CrossFrame, With(Zero, 7, 200), With(Zero, 0, GARBAGE)}

----------------------------------------------------------------------------
(* Specifications *)

(* The state after DS4() for each controller of C *)
InitOver(C) ==
    /\ pc = [c \in C |-> "connect"]
    /\ state_vec = [c \in C |-> <<>>]
    /\ class_previous_state = StrEmpty
    /\ self_previous_state = [c \in C |-> <<>>]
    /\ fields = [c \in C |-> InitFields]
    /\ parse_data = [c \in C |-> <<>>]
    /\ ret = [c \in C |-> "None"]
    /\ gamepad = [c \in C |-> <<>>]
    /\ updates = [c \in C |-> 0]
    /\ accepted = [c \in C |-> <<>>]
    /\ skipped = [c \in C |-> "none"]

(* main: one controller *)
Init == InitOver({1})

Next ==
    \/ \E c \in DOMAIN pc : \E f \in MainFrames : Read(c, f)
    \/ \E c \in DOMAIN pc : ConnectGetState(c)
    \/ \E c \in DOMAIN pc : PollGetState(c)

Spec == Init /\ [][Next]_vars

(* Two controllers, each running connect and the loop, interleaved at the    *)
(* awaits *)
InitTwo == InitOver({1, 2})

NextTwo ==
    \/ \E c \in DOMAIN pc : \E f \in TwoFrames : Read(c, f)
    \/ \E c \in DOMAIN pc : ConnectGetState(c)
    \/ \E c \in DOMAIN pc : PollGetState(c)

SpecTwo == InitTwo /\ [][NextTwo]_vars

----------------------------------------------------------------------------
(* Properties *)

Controllers == DOMAIN pc

(* The step of controller c that runs get_state on state_vec[c] *)
GetStateStep(c) == pc[c] \in {"connect_rx", "poll_rx"} /\ pc'[c] # pc[c]

(* The step calls simulate_input *)
Emits(c) == updates'[c] = updates[c] + 1

NonGarbage(data) == Len(data) = 0 \/ data[1] # GARBAGE

ValidFrame(data) == Len(data) >= MIN_LEN /\ data[1] # GARBAGE

StickFields == {"LX", "LY", "RX", "RY"}

(* C1: the first non-garbage frame read after connection is emitted: once   *)
(* a get_state of the loop has read the latest non-garbage frame again and   *)
(* reported no change, the sink has received an emission *)
C1_FirstFrameEmitted ==
    \A c \in Controllers :
        (/\ pc[c] = "poll"
         /\ ret[c] = "False"
         /\ ValidFrame(state_vec[c])
         /\ accepted[c] = <<state_vec[c]>>)
            => updates[c] >= 1

(* C2: a frame whose first byte is 0xC9 never reaches parse_state, and the   *)
(* get_state that reads it returns False, issues no directive and leaves     *)
(* the baseline and the decoded fields as they were *)
C2_GarbageDropped ==
    /\ [](\A c \in Controllers :
            parse_data[c] # <<>> => parse_data[c][1][1] # GARBAGE)
    /\ [][\A c \in Controllers :
            (GetStateStep(c) /\ Len(state_vec[c]) > 0 /\ state_vec[c][1] = GARBAGE)
                => /\ ret'[c] = "False"
                   /\ pc'[c] = "poll"
                   /\ parse_data'[c] = parse_data[c]
                   /\ updates'[c] = updates[c]
                   /\ gamepad'[c] = gamepad[c]
                   /\ LookupPreviousState(c)' = LookupPreviousState(c)
                   /\ fields'[c] = fields[c]]_vars

C2_Witness ==
    \E c \in Controllers :
        /\ pc[c] = "poll"
        /\ state_vec[c] = With(CrossFrame, 0, GARBAGE)
        /\ ret[c] = "False"
        /\ skipped[c] = "garbage"
        /\ updates[c] >= 1
        /\ fields[c].Cross = 0
        /\ fields[c].L2 = 200
        /\ LookupPreviousState(c) = ByteArray(With(Zero, 7, 200))

(* C3: get_state on a non-garbage frame of fewer than 11 bytes returns False *)
(* without raising and leaves the baseline and the decoded fields unchanged  *)
C3_ShortFrameDropped ==
    [][\A c \in Controllers :
        (GetStateStep(c) /\ Len(state_vec[c]) < MIN_LEN /\ NonGarbage(state_vec[c]))
            => /\ ret'[c] = "False"
               /\ pc'[c] # "crashed"
               /\ LookupPreviousState(c)' = LookupPreviousState(c)
               /\ fields'[c] = fields[c]]_vars

(* C4: get_state on a valid frame equal to the latest non-garbage frame read *)
(* before it returns False and the sink receives nothing *)
C4_RepeatNotEmitted ==
    [][\A c \in Controllers :
        (GetStateStep(c) /\ ValidFrame(state_vec[c])
                         /\ accepted[c] = <<state_vec[c]>>)
            => /\ ret'[c] = "False"
               /\ updates'[c] = updates[c]
               /\ gamepad'[c] = gamepad[c]]_vars

C4_Witness ==
    \E c \in Controllers :
        /\ pc[c] = "poll"
        /\ ret[c] = "False"
        /\ ValidFrame(state_vec[c])
        /\ accepted[c] = <<state_vec[c]>>
        /\ skipped[c] = "after"
        /\ updates[c] >= 1

(* C5: with a baseline stored, get_state returns True only when the decoded  *)
(* fields differ from the ones stored before (stated for two frames of the   *)
(* controller's full length) *)
C5_StructuralChange ==
    [][\A c \in Controllers :
        (/\ GetStateStep(c)
         /\ accepted[c] # <<>>
         /\ Len(accepted[c][1]) = FRAME_LEN
         /\ Len(state_vec[c]) = FRAME_LEN
         /\ ret'[c] = "True")
            => fields'[c] # fields[c]]_vars

(* C6: every decoded stick axis is within STICK_MIN..STICK_MAX and every     *)
(* stick value handed to the sink is within [-1, 1] *)
C6_StickRange ==
    \A c \in Controllers :
        /\ \A n \in StickFields :
              STICK_MIN <= fields[c][n] /\ fields[c][n] <= STICK_MAX
        /\ \A i \in DOMAIN gamepad[c] :
              LET d == gamepad[c][i]
              IN  /\ -d.den <= d.x /\ d.x <= d.den
                  /\ -d.den <= d.y /\ d.y <= d.den

(* The button each digital flag stands for *)
DigitalFlags ==
    {<<"Cross", DS4_BUTTON_CROSS>>, <<"Circle", DS4_BUTTON_CIRCLE>>,
     <<"Square", DS4_BUTTON_SQUARE>>, <<"Triangle", DS4_BUTTON_TRIANGLE>>,
     <<"Share", DS4_BUTTON_SHARE>>, <<"Options", DS4_BUTTON_OPTIONS>>,
     <<"L1", DS4_BUTTON_SHOULDER_LEFT>>, <<"R1", DS4_BUTTON_SHOULDER_RIGHT>>}

(* C7: every emission presses, before its update, the button of each         *)
(* digital flag asserted in the decoded state *)
C7_AssertedFlagsPressed ==
    [][\A c \in Controllers :
        Emits(c) =>
            \A b \in DigitalFlags :
                fields'[c][b[1]] = 1 =>
                    \E i, j \in DOMAIN gamepad'[c] :
                        /\ i < j
                        /\ gamepad'[c][i] = Press(b[2])
                        /\ gamepad'[c][j] = Update]_vars

(* a and b are different frames that agree outside the byte indices of S *)
DiffersOnlyIn(a, b, S) ==
    /\ Len(a) = Len(b)
    /\ a # b
    /\ \A i \in DOMAIN a : a[i] # b[i] => (i - 1) \in S

(* C8: an emission for a frame that differs from the previously emitted one  *)
(* only in a trigger byte (7 or 8) hands the sink directives that differ     *)
(* from the previous emission's *)
C8_TriggersConveyed ==
    [][\A c \in Controllers :
        (/\ Emits(c)
         /\ updates[c] >= 1
         /\ accepted[c] # <<>>
         /\ gamepad[c] = Directives(fields[c])
         /\ DiffersOnlyIn(accepted[c][1], state_vec[c], {7, 8}))
            => gamepad'[c] # gamepad[c]]_vars

(* The flag of each button bit, <<byte index, mask>> *)
FlagOfBit(b) ==
    CASE b = <<9, 1>> -> "Cross"
      [] b = <<9, 2>> -> "Circle"
      [] b = <<9, 8>> -> "Square"
      [] b = <<9, 16>> -> "Triangle"
      [] b = <<9, 64>> -> "L1"
      [] b = <<9, 128>> -> "R1"
      [] b = <<10, 4>> -> "Share"
      [] b = <<10, 8>> -> "Options"

(* C9: a frame of valid length whose only non-zero byte holds one button bit *)
(* decodes to that flag 1 and every other field 0 *)
C9_BitExactDecode ==
    \A c \in Controllers :
        \A b \in ButtonBits :
            \A n \in {MIN_LEN, FRAME_LEN} :
                parse_data[c] = <<SubSeq(With(Zero, b[1], b[2]), 1, n)>>
                    => fields[c] = [InitFields EXCEPT ![FlagOfBit(b)] = 1]

C9_Witness ==
    \E c \in Controllers :
        /\ parse_data[c] = <<SubSeq(With(Zero, 9, 8), 1, MIN_LEN)>>
        /\ fields[c].Square = 1
        /\ updates[c] >= 2
        /\ gamepad[c][1] = Press(DS4_BUTTON_SQUARE)

(* What get_state returns for a controller that ran alone on its own frames *)
Alone(c) ==
    IF state_vec[c][1] = GARBAGE \/ accepted[c] = <<state_vec[c]>>
    THEN "False" ELSE "True"

(* C10: a step of one controller leaves every other controller's baseline,   *)
(* fields and results as they were, and each get_state returns what it       *)
(* would return had the controller run alone on its own frames *)
C10_PerControllerState ==
    [][\A c \in Controllers :
        pc'[c] # pc[c] =>
            /\ \A d \in Controllers \ {c} :
                  /\ LookupPreviousState(d)' = LookupPreviousState(d)
                  /\ fields'[d] = fields[d]
                  /\ state_vec'[d] = state_vec[d]
                  /\ ret'[d] = ret[d]
                  /\ gamepad'[d] = gamepad[d]
            /\ (GetStateStep(c) /\ Len(state_vec[c]) >= MIN_LEN)
                  => ret'[c] = Alone(c)]_vars

C10_Witness ==
    /\ Cardinality(Controllers) = 2
    /\ \A c \in Controllers :
          /\ pc[c] = "poll"
          /\ ret[c] = "False"
          /\ skipped[c] = "none"
          /\ updates[c] >= 1
    /\ \A c, d \in Controllers :
          c # d => /\ LookupPreviousState(c) # LookupPreviousState(d)
                   /\ fields[c] # fields[d]

====
